---------------------------- MODULE Spec2Model ----------------------------
(***************************************************************************)
(* Model of the parametric curve fitting pipeline:                         *)
(*   ParametricModel (predict, bounds), L1Loss (compute), Optimizer        *)
(*   (optimize, _refine, get_history), DataLoader (load, get_data,         *)
(*   get_summary) and CurveFitting (run, get_results, get_summary).        *)
(*                                                                         *)
(* Numbers.  The program computes in IEEE binary floating point (numpy     *)
(* float64).  The model keeps the structure of that arithmetic at a        *)
(* reduced width: a value is an integer number of quanta of 2^-FracBits,   *)
(* with a significand of Prec bits and exponents 0..EMax, rounded to       *)
(* nearest (ties to even) after every operation, overflowing to +-Inf,     *)
(* with NaN for the invalid operations (Inf - Inf, Inf * 0).               *)
(***************************************************************************)
EXTENDS Integers, Sequences, FiniteSets, TLC

(***************************************************************************)
(* Bounds of the number format.                                            *)
(***************************************************************************)
Prec == 5

EMax == 5

FracBits == 2

\* 2^n
Pow2(n) == 2 ^ n

\* quanta per unit
Q == Pow2(FracBits)

\* largest finite magnitude, in quanta
MaxFin == (Pow2(Prec) - 1) * Pow2(EMax)

PInf == MaxFin + 1

NInf == 0 - (MaxFin + 1)

NaN == MaxFin + 2

IsNaN(a) == a = NaN

IsInf(a) == a = PInf \/ a = NInf

IsFinite(a) == ~IsNaN(a) /\ ~IsInf(a)

\* the smallest exponent e with q < 2^Prec * 2^e
RECURSIVE ExpOf(_, _)
ExpOf(q, e) == IF q < Pow2(Prec + e) THEN e ELSE ExpOf(q, e + 1)

\* a rounded magnitude, or +Inf when it exceeds the largest finite one
Overflow(r) == IF r > MaxFin THEN PInf ELSE r

\* of the neighbours lo and lo + step, the one nearest to the value whose
\* doubled remainder above lo is rem2 (in units where step is half/2): ties
\* go to the even significand
Nearest(lo, step, rem2, half) ==
    IF rem2 < half THEN lo
    ELSE IF rem2 > half THEN lo + step
    ELSE IF (lo \div step) % 2 = 0 THEN lo ELSE lo + step

\* num/den rounded between the multiples lo and lo + step of step
RoundBetween(num, den, step, lo) ==
    Overflow(Nearest(lo, step, 2 * (num - lo * den), step * den))

\* num/den rounded to a multiple of step
RoundToStep(num, den, step) ==
    RoundBetween(num, den, step, (num \div (den * step)) * step)

\* the rational num/den >= 0 (in quanta) rounded to the format
RoundMag(num, den) ==
    IF num \div den >= Pow2(Prec + EMax) THEN PInf
    ELSE RoundToStep(num, den, Pow2(ExpOf(num \div den, 0)))

FNeg(a) == IF IsNaN(a) THEN NaN ELSE 0 - a

Sign(a) == IF a > 0 THEN 1 ELSE IF a < 0 THEN 0 - 1 ELSE 0

Abs(n) == IF n < 0 THEN 0 - n ELSE n

\* round a signed rational: the sign times the rounded magnitude
Round(num, den) == Sign(num) * RoundMag(Abs(num), den)

\* the finite values of the format
Floats == {Round(n, 1) : n \in (0 - MaxFin)..MaxFin}

\* a + b
FAdd(a, b) ==
    IF IsNaN(a) \/ IsNaN(b) THEN NaN
    ELSE IF IsInf(a) /\ IsInf(b) THEN (IF a = b THEN a ELSE NaN)
    ELSE IF IsInf(a) THEN a
    ELSE IF IsInf(b) THEN b
    ELSE Round(a + b, 1)

\* a - b
FSub(a, b) == FAdd(a, FNeg(b))

\* a * b
FMul(a, b) ==
    IF IsNaN(a) \/ IsNaN(b) THEN NaN
    ELSE IF IsInf(a) \/ IsInf(b)
         THEN (IF a = 0 \/ b = 0 THEN NaN
               ELSE IF Sign(a) * Sign(b) > 0 THEN PInf ELSE NInf)
    ELSE Round(a * b, Q)

\* a / n for a count n >= 1
FDivN(a, n) ==
    IF IsNaN(a) THEN NaN
    ELSE IF IsInf(a) THEN a
    ELSE Round(a, n)

\* np.abs
NpAbs(a) == IF IsNaN(a) THEN NaN ELSE IF a < 0 THEN 0 - a ELSE a

\* a minimum that takes the first element whatever follows it
NpMinFirst(s) == s[1]

\* np.min of a non-empty sequence: NaN if any element is NaN
FMin(a, b) == IF IsNaN(a) \/ IsNaN(b) THEN NaN ELSE IF a <= b THEN a ELSE b

RECURSIVE NpMin(_)
NpMin(s) == IF Len(s) = 1 THEN s[1] ELSE FMin(s[1], NpMin(Tail(s)))

\* the comparison a >= 0 (false for NaN)
FGe0(a) == ~IsNaN(a) /\ a >= 0

(***************************************************************************)
(* numpy's elementary functions.  Each returns the value of the function   *)
(* rounded to the format; the value itself is computed from the power      *)
(* series in fixed point with Scale digits.                                *)
(***************************************************************************)
Scale == 1000

\* pi, in units of 1/Scale
PiS == (31416 * Scale) \div 10000

\* a finite format value, in units of 1/Scale
ToScale(a) == (a * Scale) \div Q

\* sum of the terms k.. of the series of sin at r >= 0 (units of 1/Scale):
\* term is the magnitude of term k, sgn its sign
RECURSIVE SinSeries(_, _, _, _)
SinSeries(r, k, term, sgn) ==
    IF term = 0 THEN 0
    ELSE sgn * term
         + SinSeries(r, k + 1,
                     (((term * r) \div Scale) * r) \div (Scale * (2 * k + 2) * (2 * k + 3)),
                     0 - sgn)

\* sum of the terms k.. of the series of cos at r >= 0
RECURSIVE CosSeries(_, _, _, _)
CosSeries(r, k, term, sgn) ==
    IF term = 0 THEN 0
    ELSE sgn * term
         + CosSeries(r, k + 1,
                     (((term * r) \div Scale) * r) \div (Scale * (2 * k + 1) * (2 * k + 2)),
                     0 - sgn)

\* sum of the terms k.. of the series of exp at a/Q, a >= 0
RECURSIVE ExpSeries(_, _, _)
ExpSeries(a, k, term) ==
    IF term = 0 THEN 0
    ELSE term + ExpSeries(a, k + 1, (term * a) \div (Q * (k + 1)))

\* an angle in units of 1/Scale reduced to (-pi, pi]
Wrap(m) == IF m > PiS THEN m - 2 * PiS ELSE m

Reduce(r) == Wrap(r % (2 * PiS))

\* sin of the reduced angle r: sin is odd
SinReduced(r) == Round(Sign(r) * SinSeries(Abs(r), 0, Abs(r), 1) * Q, Scale)

\* np.sin
NpSin(a) == IF ~IsFinite(a) THEN NaN ELSE SinReduced(Reduce(ToScale(a)))

\* cos of the reduced angle r: cos is even
CosReduced(r) == Round(CosSeries(Abs(r), 0, Scale, 1) * Q, Scale)

\* np.cos
NpCos(a) == IF ~IsFinite(a) THEN NaN ELSE CosReduced(Reduce(ToScale(a)))

\* the largest argument (in units) the series of exp is summed for; beyond
\* it exp exceeds every finite value of the format
ExpArgMax == 8

\* np.exp
NpExp(a) ==
    IF IsNaN(a) THEN NaN
    ELSE IF a = PInf THEN PInf
    ELSE IF a = NInf THEN 0
    ELSE IF a > ExpArgMax * Q THEN PInf
    ELSE IF a < 0 - ExpArgMax * Q THEN 0
    ELSE IF a >= 0 THEN Round(ExpSeries(a, 0, Scale) * Q, Scale)
    ELSE Round(Scale * Q, ExpSeries(0 - a, 0, Scale))

\* np.deg2rad: x * pi / 180
NpDeg2Rad(a) ==
    IF ~IsFinite(a) THEN a
    ELSE Round(a * PiS, 180 * Scale)

(***************************************************************************)
(* Optional values: None, or Some(v).                                      *)
(***************************************************************************)
None == <<>>

Some(v) == <<v>>

IsNone(o) == o = <<>>

Val(o) == o[1]

\* the format value of the decimal num/den
Lit(num, den) == Round(num * Q, den)

(***************************************************************************)
(* ParametricModel                                                         *)
(***************************************************************************)
\* ParametricModel.y_offset
y_offset == Lit(42, 1)

\* ParametricModel.frequency
frequency == Lit(3, 10)

\* exp_term of ParametricModel.predict for one element t of the array
exp_term(t, m) == NpExp(FMul(m, NpAbs(t)))

\* sin_freq_t of ParametricModel.predict for one element t of the array
sin_freq_t(t) == NpSin(FMul(frequency, t))

\* x_pred of ParametricModel.predict for one element t of the array, where
\* wave is exp_term * sin_freq_t
x_pred(t, wave, cos_theta, sin_theta, x) ==
    FAdd(FSub(FMul(t, cos_theta), FMul(wave, sin_theta)), x)

\* y_pred of ParametricModel.predict for one element t of the array
y_pred(t, wave, cos_theta, sin_theta) ==
    FAdd(FAdd(y_offset, FMul(t, sin_theta)), FMul(wave, cos_theta))

\* the point <<x_pred, y_pred>> for one element t of the array
PredictAt(t, wave, cos_theta, sin_theta, x) ==
    <<x_pred(t, wave, cos_theta, sin_theta, x), y_pred(t, wave, cos_theta, sin_theta)>>

\* the arrays x_pred and y_pred with the point p put before those of rest
PutBefore(p, rest) == << <<p[1]>> \o rest[1], <<p[2]>> \o rest[2] >>

\* the arrays x_pred and y_pred from element j of t on
RECURSIVE PredictFrom(_, _, _, _, _, _)
PredictFrom(t, j, cos_theta, sin_theta, m, x) ==
    IF j > Len(t) THEN <<<<>>, <<>>>>
    ELSE PutBefore(PredictAt(t[j], FMul(exp_term(t[j], m), sin_freq_t(t[j])),
                             cos_theta, sin_theta, x),
                   PredictFrom(t, j + 1, cos_theta, sin_theta, m, x))

\* ParametricModel.predict from theta_rad on
PredictRad(t, theta_rad, m, x) ==
    PredictFrom(t, 1, NpCos(theta_rad), NpSin(theta_rad), m, x)

\* ParametricModel.predict: <<x_pred, y_pred>>, two arrays as long as t
predict(t, theta_deg, m, x) == PredictRad(t, NpDeg2Rad(theta_deg), m, x)

\* ParametricModel.get_parameter_bounds
get_parameter_bounds ==
    << <<Lit(0, 1), Lit(50, 1)>>,
       <<Lit(0 - 5, 100), Lit(5, 100)>>,
       <<Lit(0, 1), Lit(100, 1)>> >>

(***************************************************************************)
(* L1Loss                                                                  *)
(***************************************************************************)
\* distances that sum the differences without their absolute values
RECURSIVE l1_distances_signed(_, _, _, _, _)
l1_distances_signed(x_curve, y_curve, x_i, y_i, j) ==
    IF j > Len(x_curve) THEN <<>>
    ELSE <<FAdd(FSub(x_curve[j], x_i), FSub(y_curve[j], y_i))>>
         \o l1_distances_signed(x_curve, y_curve, x_i, y_i, j + 1)

\* l1_distances of L1Loss.compute for the observation (x_i, y_i), from
\* element j of the curve on
RECURSIVE l1_distances(_, _, _, _, _)
l1_distances(x_curve, y_curve, x_i, y_i, j) ==
    IF j > Len(x_curve) THEN <<>>
    ELSE <<FAdd(NpAbs(FSub(x_curve[j], x_i)), NpAbs(FSub(y_curve[j], y_i)))>>
         \o l1_distances(x_curve, y_curve, x_i, y_i, j + 1)

\* min_l1_distance of L1Loss.compute for the observation (x_i, y_i)
min_l1_distance(x_curve, y_curve, x_i, y_i) ==
    NpMin(l1_distances(x_curve, y_curve, x_i, y_i, 1))

\* the loop of L1Loss.compute from observation i on, total so far
RECURSIVE total_min_l1_distance(_, _, _, _, _, _)
total_min_l1_distance(x_curve, y_curve, x_obs, y_obs, i, total) ==
    IF i > Len(x_obs) THEN total
    ELSE total_min_l1_distance(x_curve, y_curve, x_obs, y_obs, i + 1,
             FAdd(total, min_l1_distance(x_curve, y_curve, x_obs[i], y_obs[i])))

\* the loop and the return of L1Loss.compute on the predicted curve
\* <<x_curve, y_curve>>; then L1Loss.compute, for len(x_obs) = len(y_obs) >= 1
\* and len(t_grid) >= 1
loss_of_curve(curve, x_obs, y_obs) ==
    FDivN(total_min_l1_distance(curve[1], curve[2], x_obs, y_obs, 1, 0), Len(x_obs))

compute(params, t_grid, x_obs, y_obs) ==
    loss_of_curve(predict(t_grid, params[1], params[2], params[3]), x_obs, y_obs)

(***************************************************************************)
(* Outcomes of calls.  A call returns a value or raises an error; trace    *)
(* lists, in order, what the call did to its collaborators.                *)
(***************************************************************************)
NoError == [type |-> "", msg |-> ""]

Error(type, msg) == [type |-> type, msg |-> msg]

\* the error a minimizer of scipy.optimize raises when it fails (for example
\* on a non-finite objective value)
MinimizerError == Error("RuntimeError", "minimizer")

(***************************************************************************)
(* Optimizer.  optimization_history is a list of references to dict        *)
(* objects: hist is the list (of indices into the heap hp of dicts).       *)
(* de and rf are what differential_evolution and minimize do when they     *)
(* are called: raise, or return the parameter vector x (the value fun      *)
(* they return is the objective at x).                                     *)
(***************************************************************************)
\* ParametricModel.validate_parameters
validate_parameters(theta_deg, m, x) ==
    LET b == get_parameter_bounds
    IN  /\ b[1][1] <= theta_deg /\ theta_deg <= b[1][2]
        /\ b[2][1] <= m /\ m <= b[2][2]
        /\ b[3][1] <= x /\ x <= b[3][2]

\* parameter vectors a minimizer may return: sample points of the bound box
MinimizerPoints ==
    {p \in {<<Lit(0, 1), Lit(0, 1), Lit(0, 1)>>,
            <<Lit(30, 1), Lit(0, 1), Lit(0, 1)>>,
            <<Lit(60, 1), Lit(0, 1), Lit(0, 1)>>} :
        validate_parameters(p[1], p[2], p[3])}

\* what a call of a minimizer does
MinimizerOutcomes ==
    {[raises |-> TRUE, x |-> <<>>]} \cup
    {[raises |-> FALSE, x |-> p] : p \in MinimizerPoints}

\* a global phase that tags its dict as the refinement phase does
global_step_as_refinement(theta_opt, m_opt, x_opt, initial_loss) ==
    [method |-> "L-BFGS-B", theta |-> theta_opt, m |-> m_opt,
     x |-> x_opt, loss |-> initial_loss]

\* the dict appended by the global phase (Optimizer.optimize)
global_step(theta_opt, m_opt, x_opt, initial_loss) ==
    [method |-> "differential_evolution", theta |-> theta_opt, m |-> m_opt,
     x |-> x_opt, loss |-> initial_loss]

\* the dict appended by the refinement phase (Optimizer._refine)
refine_step(theta_opt, m_opt, x_opt, final_loss) ==
    [method |-> "L-BFGS-B", theta |-> theta_opt, m |-> m_opt,
     x |-> x_opt, loss |-> final_loss]

\* the result of a phase: the history and the heap after it, the value
\* returned, and what it did
Returned(hist, hp, ret, trace) ==
    [history |-> hist, heap |-> hp, ok |-> TRUE, err |-> NoError,
     ret |-> Some(ret), trace |-> trace]

Raised(hist, hp, err, trace) ==
    [history |-> hist, heap |-> hp, ok |-> FALSE, err |-> err, ret |-> None,
     trace |-> trace]

\* a refinement that reports its result and records nothing
refine_done_unrecorded(hist, hp, p, final_loss) ==
    Returned(hist, hp, <<p[1], p[2], p[3], final_loss>>, <<"minimize">>)

\* Optimizer._refine after minimize returned p with the loss final_loss
refine_done(hist, hp, p, final_loss) ==
    Returned(Append(hist, Len(hp) + 1),
             Append(hp, refine_step(p[1], p[2], p[3], final_loss)),
             <<p[1], p[2], p[3], final_loss>>, <<"minimize", "append">>)

\* Optimizer._refine
_refine(hist, hp, theta_init, m_init, x_init, t, x_obs, y_obs, rf) ==
    IF rf.raises
    THEN Raised(hist, hp, MinimizerError, <<"minimize">>)
    ELSE refine_done(hist, hp, rf.x, compute(rf.x, t, x_obs, y_obs))

\* the result r of a later phase, with trace before what it did
After(trace, r) == [r EXCEPT !.trace = trace \o @]

\* an optimize that reports the phase with the smaller loss
global_done_keep_best(hist, hp, p, initial_loss, t, x_obs, y_obs, use_refinement, rf) ==
    IF use_refinement /\ ~rf.raises
       /\ compute(rf.x, t, x_obs, y_obs) > initial_loss
    THEN [After(<<"differential_evolution", "append">>,
                _refine(Append(hist, Len(hp) + 1),
                        Append(hp, global_step(p[1], p[2], p[3], initial_loss)),
                        p[1], p[2], p[3], t, x_obs, y_obs, rf))
          EXCEPT !.ret = Some(<<p[1], p[2], p[3], initial_loss>>)]
    ELSE IF use_refinement
    THEN After(<<"differential_evolution", "append">>,
               _refine(Append(hist, Len(hp) + 1),
                       Append(hp, global_step(p[1], p[2], p[3], initial_loss)),
                       p[1], p[2], p[3], t, x_obs, y_obs, rf))
    ELSE Returned(Append(hist, Len(hp) + 1),
                  Append(hp, global_step(p[1], p[2], p[3], initial_loss)),
                  <<p[1], p[2], p[3], initial_loss>>,
                  <<"differential_evolution", "append">>)

\* Optimizer.optimize after differential_evolution returned p with the loss
\* initial_loss
global_done(hist, hp, p, initial_loss, t, x_obs, y_obs, use_refinement, rf) ==
    IF use_refinement
    THEN After(<<"differential_evolution", "append">>,
               _refine(Append(hist, Len(hp) + 1),
                       Append(hp, global_step(p[1], p[2], p[3], initial_loss)),
                       p[1], p[2], p[3], t, x_obs, y_obs, rf))
    ELSE Returned(Append(hist, Len(hp) + 1),
                  Append(hp, global_step(p[1], p[2], p[3], initial_loss)),
                  <<p[1], p[2], p[3], initial_loss>>,
                  <<"differential_evolution", "append">>)

\* an optimize that, when differential_evolution raises, records a step and
\* returns it
global_failed_swallowed(hist, hp) ==
    Returned(Append(hist, Len(hp) + 1),
             Append(hp, global_step(Lit(0, 1), Lit(0, 1), Lit(0, 1), PInf)),
             <<Lit(0, 1), Lit(0, 1), Lit(0, 1), PInf>>,
             <<"differential_evolution", "differential_evolution", "append">>)

\* Optimizer.optimize when differential_evolution raises: nothing catches it
global_failed(hist, hp) ==
    Raised(hist, hp, MinimizerError, <<"differential_evolution">>)

\* Optimizer.optimize
optimize(hist, hp, t, x_obs, y_obs, use_refinement, de, rf) ==
    IF de.raises
    THEN global_failed(hist, hp)
    ELSE global_done(hist, hp, de.x, compute(de.x, t, x_obs, y_obs),
                     t, x_obs, y_obs, use_refinement, rf)

\* Optimizer.get_history: a new list of the same dict objects
get_history(hist) == hist

\* the dicts a list of references shows
Shown(list, hp) == [i \in 1..Len(list) |-> hp[list[i]]]

(***************************************************************************)
(* DataLoader.  A loader is the record of its fields x_obs, y_obs,         *)
(* n_points and t_values.  A CSV file is missing, empty (no content), or   *)
(* a table with named columns; x and y are the cells of its columns x and  *)
(* y (as many as the table has rows).                                      *)
(***************************************************************************)
\* DataLoader.t_min
t_min == Lit(6, 1)

\* DataLoader.t_max
t_max == Lit(60, 1)

\* DataLoader.__init__
NewLoader == [x_obs |-> None, y_obs |-> None, n_points |-> 0, t_values |-> None]

MissingFile == [kind |-> "missing", cols |-> {}, x |-> <<>>, y |-> <<>>]

EmptyFile == [kind |-> "empty", cols |-> {}, x |-> <<>>, y |-> <<>>]

HeaderOnlyFile == [kind |-> "table", cols |-> {"x", "y"}, x |-> <<>>, y |-> <<>>]

OnlyXFile == [kind |-> "table", cols |-> {"x"}, x |-> <<Lit(6, 1)>>, y |-> <<>>]

OnlyYFile == [kind |-> "table", cols |-> {"y"}, x |-> <<>>, y |-> <<Lit(44, 1)>>]

\* a table of two observations
DataFile ==
    [kind |-> "table", cols |-> {"x", "y"},
     x |-> <<Lit(6, 1), Lit(60, 1)>>, y |-> <<Lit(44, 1), Lit(42, 1)>>]

\* the files a load may find at csv_path
Files == {MissingFile, EmptyFile, HeaderOnlyFile, OnlyXFile, OnlyYFile, DataFile}

\* np.linspace(start, stop, num) for num >= 1
linspace(start, stop, num) ==
    LET step == FDivN(FSub(stop, start), num - 1)
    IN  [i \in 1..num |->
            IF num = 1 THEN start
            ELSE IF i = num THEN stop
            ELSE FAdd(FMul(Lit(i - 1, 1), step), start)]

\* the except clauses of DataLoader.load: the error raised for the error e
\* caught
load_all_value_error(e) ==
    IF e.type = "EmptyDataError" THEN Error("ValueError", "is empty")
    ELSE Error("ValueError", "Error loading data")

load_except(e) ==
    IF e.type = "FileNotFoundError" THEN Error("FileNotFoundError", "Could not find")
    ELSE IF e.type = "EmptyDataError" THEN Error("ValueError", "is empty")
    ELSE Error("ValueError", "Error loading data")

\* the try block of DataLoader.load on the file: the loader after it, and
\* the error raised in it (NoError: it returned ret)
load_try(dl, file) ==
    IF file.kind = "missing"
    THEN [loader |-> dl, err |-> Error("FileNotFoundError", "read_csv"), ret |-> None]
    ELSE IF file.kind = "empty"
    THEN [loader |-> dl, err |-> Error("EmptyDataError", "read_csv"), ret |-> None]
    ELSE IF "x" \notin file.cols \/ "y" \notin file.cols
    THEN [loader |-> dl, err |-> Error("ValueError", "must contain 'x' and 'y' columns"),
          ret |-> None]
    ELSE LET dl1 == [dl EXCEPT !.x_obs = Some(file.x), !.y_obs = Some(file.y),
                               !.n_points = Len(file.x)]
         IN  IF Len(file.y) # dl1.n_points
             THEN [loader |-> dl1, ret |-> None,
                   err |-> Error("ValueError", "Number of x and y values must be equal")]
             ELSE IF dl1.n_points = 0
             THEN [loader |-> dl1, ret |-> None,
                   err |-> Error("ValueError", "CSV file is empty")]
             ELSE [loader |-> [dl1 EXCEPT !.t_values =
                                   Some(linspace(t_min, t_max, dl1.n_points))],
                   err |-> NoError,
                   ret |-> Some(<<file.x, file.y, dl1.n_points>>)]

\* DataLoader.load: what the try block did, through the except clauses
load_outcome(r) ==
    IF r.err = NoError
    THEN [loader |-> r.loader, ok |-> TRUE, err |-> NoError, ret |-> r.ret]
    ELSE [loader |-> r.loader, ok |-> FALSE, err |-> load_except(r.err), ret |-> None]

load(dl, file) == load_outcome(load_try(dl, file))

\* the guard of DataLoader.get_data and DataLoader.get_summary
data_not_loaded(dl) == IsNone(dl.x_obs) \/ IsNone(dl.y_obs)

DataNotLoaded == Error("ValueError", "Data not loaded. Call load() first.")

\* DataLoader.get_data
get_data(dl) ==
    IF data_not_loaded(dl)
    THEN [ok |-> FALSE, err |-> DataNotLoaded, ret |-> None]
    ELSE [ok |-> TRUE, err |-> NoError,
          ret |-> Some([x_obs |-> Val(dl.x_obs), y_obs |-> Val(dl.y_obs),
                        t_values |-> dl.t_values])]

\* ndarray.max of a non-empty array
FMax(a, b) == IF IsNaN(a) \/ IsNaN(b) THEN NaN ELSE IF a >= b THEN a ELSE b

RECURSIVE NpMax(_)
NpMax(s) == IF Len(s) = 1 THEN s[1] ELSE FMax(s[1], NpMax(Tail(s)))

\* the sum of an array from element i on, added to acc
RECURSIVE NpSum(_, _, _)
NpSum(s, i, acc) == IF i > Len(s) THEN acc ELSE NpSum(s, i + 1, FAdd(acc, s[i]))

\* ndarray.mean of a non-empty array
NpMean(s) == FDivN(NpSum(s, 1, 0), Len(s))

\* DataLoader.get_summary
loader_get_summary(dl) ==
    IF data_not_loaded(dl)
    THEN [ok |-> FALSE, err |-> DataNotLoaded, ret |-> None]
    ELSE IF Len(Val(dl.x_obs)) = 0 \/ Len(Val(dl.y_obs)) = 0
    THEN [ok |-> FALSE, ret |-> None,
          err |-> Error("ValueError", "zero-size array to reduction operation")]
    ELSE [ok |-> TRUE, err |-> NoError,
          ret |-> Some([n_points |-> dl.n_points,
                        x_range |-> <<NpMin(Val(dl.x_obs)), NpMax(Val(dl.x_obs))>>,
                        y_range |-> <<NpMin(Val(dl.y_obs)), NpMax(Val(dl.y_obs))>>,
                        x_mean |-> NpMean(Val(dl.x_obs)),
                        y_mean |-> NpMean(Val(dl.y_obs)),
                        t_range |-> <<t_min, t_max>>])]

(***************************************************************************)
(* CurveFitting.  A fitter is the record of its result fields; its         *)
(* data_loader and optimizer are the loader and the history above.         *)
(***************************************************************************)
\* CurveFitting.__init__
NewFitter ==
    [theta_opt |-> None, m_opt |-> None, x_opt |-> None, final_loss |-> None,
     data_summary |-> None]

NotYetRun == Error("ValueError", "Optimization not yet run. Call run() first.")

\* what the plotting and report steps of run do: all return, or plot_fit
\* raises (the figure cannot be written)
OutputOutcomes == {"ok", "plot_fit"}

\* the outcome of a run
RunOutcome(dl, fit, o, stored, ok, err, ret, trace) ==
    [loader |-> dl, fitter |-> fit, history |-> o.history, heap |-> o.heap,
     stored |-> stored, ok |-> ok, err |-> err, ret |-> ret, trace |-> trace]

\* CurveFitting.run after the results are stored: plot_fit,
\* generate_report, get_history and plot_optimization_history
run_stored(dl, fit, o, outputs) ==
    IF outputs = "plot_fit"
    THEN RunOutcome(dl, fit, o, TRUE, FALSE, Error("OSError", "plot_fit"), None,
                    <<"load", "get_summary", "get_data", "optimize">> \o o.trace
                    \o <<"plot_fit">>)
    ELSE RunOutcome(dl, fit, o, TRUE, TRUE, NoError, o.ret,
                    <<"load", "get_summary", "get_data", "optimize">> \o o.trace
                    \o <<"plot_fit", "generate_report", "get_history",
                         "plot_optimization_history">>)

\* the assignment of the tuple optimize returned to the result fields
Store(fit, res) ==
    [fit EXCEPT !.theta_opt = Some(res[1]), !.m_opt = Some(res[2]),
                !.x_opt = Some(res[3]), !.final_loss = Some(res[4])]

\* CurveFitting.run after optimize was called, o being what it did
run_optimized(dl, fit, o, outputs) ==
    IF ~o.ok
    THEN RunOutcome(dl, fit, o, FALSE, FALSE, o.err, None,
                    <<"load", "get_summary", "get_data", "optimize">> \o o.trace)
    ELSE run_stored(dl, Store(fit, Val(o.ret)), o, outputs)

\* CurveFitting.run after get_summary was called, sm being what it did
run_summarised(dl, sm, fit, hist, hp, use_refinement, de, rf, outputs) ==
    IF ~sm.ok
    THEN RunOutcome(dl, fit, [history |-> hist, heap |-> hp], FALSE, FALSE, sm.err,
                    None, <<"load", "get_summary">>)
    ELSE run_optimized(dl, [fit EXCEPT !.data_summary = sm.ret],
                       optimize(hist, hp, Val(Val(get_data(dl).ret).t_values),
                                Val(get_data(dl).ret).x_obs,
                                Val(get_data(dl).ret).y_obs, use_refinement, de, rf),
                       outputs)

\* a run that goes on to the optimizer also when load raises
run_loaded_ignoring_error(l, fit, hist, hp, use_refinement, de, rf, outputs) ==
    IF ~l.ok
    THEN run_optimized(l.loader, fit,
                       optimize(hist, hp, <<t_min>>, <<Lit(0, 1)>>, <<Lit(0, 1)>>,
                                use_refinement, de, rf),
                       outputs)
    ELSE run_summarised(l.loader, loader_get_summary(l.loader), fit, hist, hp,
                        use_refinement, de, rf, outputs)

\* CurveFitting.run after load was called, l being what it did
run_loaded(l, fit, hist, hp, use_refinement, de, rf, outputs) ==
    IF ~l.ok
    THEN RunOutcome(l.loader, fit, [history |-> hist, heap |-> hp], FALSE, FALSE,
                    l.err, None, <<"load">>)
    ELSE run_summarised(l.loader, loader_get_summary(l.loader), fit, hist, hp,
                        use_refinement, de, rf, outputs)

\* CurveFitting.run
run(dl, fit, hist, hp, file, use_refinement, de, rf, outputs) ==
    run_loaded(load(dl, file), fit, hist, hp, use_refinement, de, rf, outputs)

\* a guard that looks at data_summary instead of theta_opt
not_yet_run_by_summary(fit) == IsNone(fit.data_summary)

\* the guard of CurveFitting.get_results and CurveFitting.get_summary
not_yet_run(fit) == IsNone(fit.theta_opt)

\* a number formatted with precision digits by ReportGenerator
Formatted(v) == [precision |-> 6, value |-> v]

\* ReportGenerator.generate_latex_string: the numbers the string holds
generate_latex_string(theta_opt, m_opt, x_opt) ==
    <<Formatted(theta_opt), Formatted(m_opt), Formatted(x_opt)>>

\* CurveFitting.get_results
get_results(fit) ==
    IF not_yet_run(fit)
    THEN [ok |-> FALSE, err |-> NotYetRun, ret |-> None]
    ELSE [ok |-> TRUE, err |-> NoError,
          ret |-> Some([theta |-> fit.theta_opt, m |-> fit.m_opt,
                        x |-> fit.x_opt, loss |-> fit.final_loss,
                        latex_string |->
                            IF IsNone(fit.theta_opt) THEN None
                            ELSE Some(generate_latex_string(Val(fit.theta_opt),
                                          Val(fit.m_opt), Val(fit.x_opt)))])]

\* CurveFitting.get_summary: the values ReportGenerator.generate_summary
\* writes into the summary string
get_summary(fit, hist, hp) ==
    IF not_yet_run(fit)
    THEN [ok |-> FALSE, err |-> NotYetRun, ret |-> None]
    ELSE [ok |-> TRUE, err |-> NoError,
          ret |-> Some([data_summary |-> fit.data_summary,
                        steps |-> Shown(get_history(hist), hp),
                        theta |-> fit.theta_opt, m |-> fit.m_opt,
                        x |-> fit.x_opt, loss |-> fit.final_loss])]

(***************************************************************************)
(* State                                                                   *)
(***************************************************************************)
VARIABLES
    \* Optimizer.optimization_history (a list of references) and the dict
    \* objects it refers to
    optimization_history, heap,
    \* the list a caller holds from its last get_history(), and the number of
    \* changes the caller has made through such lists
    held, nmut,
    \* DataLoader's fields and CurveFitting's result fields
    loader, fitter,
    \* whether some run has got a result back from Optimizer.optimize, and
    \* the types of the errors load has raised
    optimized, load_errors,
    \* whether some call of DataLoader.load has returned
    loaded,
    \* the last call made: its name, arguments and outcome
    last,
    \* L1Loss.compute under test: the arguments, the per-observation minimum
    \* distances and the value of its last call, and those of its first call
    largs, lmins, lret, lbase

ovars == <<optimization_history, heap, held, nmut>>

pvars == <<loader, fitter, optimized, load_errors, loaded>>

lvars == <<largs, lmins, lret, lbase>>

vars == <<optimization_history, heap, held, nmut, loader, fitter, optimized,
          load_errors, loaded, last, largs, lmins, lret, lbase>>

(***************************************************************************)
(* Bounds                                                                  *)
(***************************************************************************)
\* entries the optimization history may reach
MaxEntries == 3

\* entries the optimization history of a pipeline may reach
MaxRunEntries == 2

\* changes a caller makes through the lists get_history returned
MaxMut == 2

\* observations and grid values of a call of L1Loss.compute
MaxObs == 3

MaxGrid == 2

NoCall == [op |-> "none", arg |-> <<>>, ok |-> TRUE, err |-> NoError,
           ret |-> None, trace |-> <<>>]

InitObjects ==
    /\ optimization_history = <<>>
    /\ heap = <<>>
    /\ held = None
    /\ nmut = 0
    /\ loader = NewLoader
    /\ fitter = NewFitter
    /\ optimized = FALSE
    /\ load_errors = {}
    /\ loaded = FALSE
    /\ last = NoCall

Init ==
    /\ InitObjects
    /\ largs = None /\ lmins = None /\ lret = None /\ lbase = None

(***************************************************************************)
(* Calls on an Optimizer by its caller (Spec).  The data are those of      *)
(* DataFile.                                                               *)
(***************************************************************************)
\* the arguments t, x_obs, y_obs
OptData ==
    [t |-> linspace(t_min, t_max, Len(DataFile.x)), x_obs |-> DataFile.x,
     y_obs |-> DataFile.y]

\* the call made and its outcome r
Called(op, arg, r, trace) ==
    [op |-> op, arg |-> arg, ok |-> r.ok, err |-> r.err, ret |-> r.ret,
     trace |-> trace]

\* the effect r of a call of optimize
OptimizeDoes(r, arg) ==
    /\ optimization_history' = r.history
    /\ heap' = r.heap
    /\ last' = Called("optimize", arg, r, r.trace)

\* the outcome drawn for a step that a call does not reach
Unreached == CHOOSE o \in MinimizerOutcomes : ~o.raises

\* the outcomes of the two minimizers that make a difference to a call of
\* optimize: minimize is reached when refinement is on and
\* differential_evolution returned
OptimizeInputs(use_refinement) ==
    {i \in [de : MinimizerOutcomes, rf : MinimizerOutcomes] :
        (~use_refinement \/ i.de.raises) => i.rf = Unreached}

\* Optimizer.optimize(t, x_obs, y_obs, use_refinement)
Optimize ==
    \E use_refinement \in BOOLEAN :
    \E de \in MinimizerOutcomes, rf \in MinimizerOutcomes :
        /\ [de |-> de, rf |-> rf] \in OptimizeInputs(use_refinement)
        /\ Len(optimization_history) + (IF use_refinement THEN 2 ELSE 1) <= MaxEntries
        /\ OptimizeDoes(optimize(optimization_history, heap, OptData.t, OptData.x_obs,
                                 OptData.y_obs, use_refinement, de, rf),
                        [use_refinement |-> use_refinement, de |-> de, rf |-> rf])
        /\ UNCHANGED <<held, nmut, pvars, lvars>>

\* Optimizer.get_history()
GetHistory ==
    /\ held' = Some(get_history(optimization_history))
    /\ last' = [op |-> "get_history", arg |-> <<>>, ok |-> TRUE, err |-> NoError,
                ret |-> Some(Shown(get_history(optimization_history), heap)),
                trace |-> <<>>]
    /\ UNCHANGED <<optimization_history, heap, nmut, pvars, lvars>>

CallerDid(op) ==
    /\ nmut' = nmut + 1
    /\ last' = [op |-> op, arg |-> <<>>, ok |-> TRUE, err |-> NoError, ret |-> None,
                trace |-> <<>>]

\* the caller removes the last entry of the list it holds: h.pop()
CallerRemove ==
    /\ ~IsNone(held) /\ nmut < MaxMut
    /\ Len(Val(held)) > 0
    /\ held' = Some(SubSeq(Val(held), 1, Len(Val(held)) - 1))
    /\ CallerDid("caller_remove")
    /\ UNCHANGED <<optimization_history, heap, pvars, lvars>>

\* the caller adds an entry to the list it holds: h.append(h[0])
CallerAdd ==
    /\ ~IsNone(held) /\ nmut < MaxMut
    /\ Len(Val(held)) > 0
    /\ held' = Some(Append(Val(held), Val(held)[1]))
    /\ CallerDid("caller_add")
    /\ UNCHANGED <<optimization_history, heap, pvars, lvars>>

\* the caller reorders the list it holds: h.reverse()
CallerReorder ==
    /\ ~IsNone(held) /\ nmut < MaxMut
    /\ Len(Val(held)) > 1
    /\ held' = Some([i \in 1..Len(Val(held)) |-> Val(held)[Len(Val(held)) + 1 - i]])
    /\ CallerDid("caller_reorder")
    /\ UNCHANGED <<optimization_history, heap, pvars, lvars>>

\* the caller changes a field of an entry of the list it holds:
\* h[i]['loss'] = ..., h[i]['method'] = ...
CallerSetField ==
    /\ ~IsNone(held) /\ nmut < MaxMut
    /\ \E i \in 1..Len(Val(held)) :
          \/ /\ heap[Val(held)[i]].loss # Lit(1, 1)
             /\ heap' = [heap EXCEPT ![Val(held)[i]].loss = Lit(1, 1)]
          \/ /\ heap[Val(held)[i]].method # "edited"
             /\ heap' = [heap EXCEPT ![Val(held)[i]].method = "edited"]
    /\ CallerDid("caller_set_field")
    /\ UNCHANGED <<optimization_history, held, pvars, lvars>>

Next ==
    \/ Optimize
    \/ GetHistory
    \/ CallerRemove
    \/ CallerAdd
    \/ CallerReorder
    \/ CallerSetField

Spec == Init /\ [][Next]_vars

(***************************************************************************)
(* Calls on a CurveFitting pipeline and its DataLoader (PipelineSpec).     *)
(***************************************************************************)
\* the effect r of a call of load
LoadDoes(r, file) ==
    /\ loader' = r.loader
    /\ load_errors' = IF r.ok THEN load_errors ELSE load_errors \cup {r.err.type}
    /\ loaded' = (loaded \/ r.ok)
    /\ last' = Called("load", [file |-> file], r, <<>>)

\* DataLoader.load() with the file at csv_path
Load ==
    \E file \in Files :
        /\ LoadDoes(load(loader, file), file)
        /\ UNCHANGED <<fitter, optimized, ovars, lvars>>

\* DataLoader.get_data()
GetData ==
    /\ last' = Called("get_data", <<>>, get_data(loader), <<>>)
    /\ UNCHANGED <<pvars, ovars, lvars>>

\* DataLoader.get_summary()
LoaderGetSummary ==
    /\ last' = Called("loader_get_summary", <<>>, loader_get_summary(loader), <<>>)
    /\ UNCHANGED <<pvars, ovars, lvars>>

\* the effect r of a call of run
RunDoes(r, arg) ==
    /\ loader' = r.loader
    /\ fitter' = r.fitter
    /\ optimization_history' = r.history
    /\ heap' = r.heap
    /\ optimized' = (optimized \/ r.stored)
    /\ load_errors' = IF r.trace = <<"load">> THEN load_errors \cup {r.err.type}
                      ELSE load_errors
    /\ loaded' = (loaded \/ r.trace # <<"load">>)
    /\ last' = Called("run", arg, r, r.trace)

\* the inputs that make a difference to a call of run: the minimizers are
\* reached when load returned, the plots and the report when optimize
\* returned
RunInputs(use_refinement) ==
    {i \in [file : Files, de : MinimizerOutcomes, rf : MinimizerOutcomes,
            outputs : OutputOutcomes] :
        /\ [de |-> i.de, rf |-> i.rf] \in OptimizeInputs(use_refinement)
        /\ ~load(NewLoader, i.file).ok => i.de = Unreached
        /\ (i.de.raises \/ (use_refinement /\ i.rf.raises)
            \/ ~load(NewLoader, i.file).ok) => i.outputs = "ok"}

\* CurveFitting.run(use_refinement) with the file at csv_path
Run ==
    \E use_refinement \in BOOLEAN :
    \E file \in Files, de \in MinimizerOutcomes, rf \in MinimizerOutcomes,
       outputs \in OutputOutcomes :
        /\ [file |-> file, de |-> de, rf |-> rf, outputs |-> outputs]
               \in RunInputs(use_refinement)
        /\ Len(optimization_history) + (IF use_refinement THEN 2 ELSE 1) <= MaxRunEntries
        /\ RunDoes(run(loader, fitter, optimization_history, heap, file,
                       use_refinement, de, rf, outputs),
                   [file |-> file, use_refinement |-> use_refinement,
                    de |-> de, rf |-> rf, outputs |-> outputs])
        /\ UNCHANGED <<held, nmut, lvars>>

\* CurveFitting.get_results()
GetResults ==
    /\ last' = Called("get_results", <<>>, get_results(fitter), <<>>)
    /\ UNCHANGED <<pvars, ovars, lvars>>

\* CurveFitting.get_summary()
GetSummary ==
    /\ last' = Called("get_summary", <<>>,
                      get_summary(fitter, optimization_history, heap), <<>>)
    /\ UNCHANGED <<pvars, ovars, lvars>>

PipelineNext ==
    \/ Load
    \/ GetData
    \/ LoaderGetSummary
    \/ Run
    \/ GetResults
    \/ GetSummary

PipelineSpec == Init /\ [][PipelineNext]_vars

(***************************************************************************)
(* Calls of L1Loss.compute (LossSpec).                                     *)
(***************************************************************************)
\* parameter vectors: theta in degrees, m, x
LossParams ==
    {<<th, m, x>> : th \in {Lit(0, 1), Lit(30, 1)},
                    m \in {Lit(0, 1), Lit(4, 1)},
                    x \in {Lit(0, 1)}}

\* values of the curve parameter t
LossTVals == <<Lit(0, 1), Lit(6, 1)>>

\* observed points (x, y)
LossObsPts ==
    << <<Lit(0, 1), Lit(42, 1)>>, <<Lit(1, 2), Lit(42, 1)>>,
       <<Lit(16, 1), Lit(42, 1)>>, <<Lit(6, 1), Lit(44, 1)>> >>

\* the non-decreasing sequences of length 1..n of indices 1..m: one order of
\* every collection of 1..n values; the other orders are reached by the
\* exchanges below
Picks(m, n) ==
    {s \in UNION {[1..k -> 1..m] : k \in 1..n} :
        \A i \in 1..(Len(s) - 1) : s[i] <= s[i + 1]}

\* s with its elements i and i+1 exchanged
SwapAt(s, i) ==
    [k \in 1..Len(s) |-> IF k = i THEN s[i + 1] ELSE IF k = i + 1 THEN s[i] ELSE s[k]]

\* the local min_l1_distance of every iteration of the call compute(a)
MinsOnCurve(curve, x_obs, y_obs) ==
    [i \in 1..Len(x_obs) |-> min_l1_distance(curve[1], curve[2], x_obs[i], y_obs[i])]

MinsOf(a) ==
    MinsOnCurve(predict(a.t_grid, a.params[1], a.params[2], a.params[3]),
                a.x_obs, a.y_obs)

LossInit ==
    /\ InitObjects
    /\ \E p \in LossParams, g \in Picks(Len(LossTVals), MaxGrid),
          o \in Picks(Len(LossObsPts), MaxObs) :
          largs = [params |-> p,
                   t_grid |-> [j \in 1..Len(g) |-> LossTVals[g[j]]],
                   x_obs |-> [i \in 1..Len(o) |-> LossObsPts[o[i]][1]],
                   y_obs |-> [i \in 1..Len(o) |-> LossObsPts[o[i]][2]]]
    /\ lmins = None
    /\ lret = None
    /\ lbase = None

\* the first call of compute, on the arguments drawn
LossCompute ==
    /\ IsNone(lret)
    /\ lret' = Some(compute(largs.params, largs.t_grid, largs.x_obs, largs.y_obs))
    /\ lmins' = Some(MinsOf(largs))
    /\ lbase' = Some([args |-> largs, ret |-> Val(lret'), mins |-> Val(lmins')])
    /\ UNCHANGED <<largs, ovars, pvars, last>>

\* a call of compute with two neighbouring observation pairs exchanged
LossPermuteObs ==
    /\ ~IsNone(lret)
    /\ \E i \in 1..(Len(largs.x_obs) - 1) :
          /\ <<largs.x_obs[i], largs.y_obs[i]>> # <<largs.x_obs[i + 1], largs.y_obs[i + 1]>>
          /\ largs' = [largs EXCEPT !.x_obs = SwapAt(@, i), !.y_obs = SwapAt(@, i)]
    /\ lret' = Some(compute(largs'.params, largs'.t_grid, largs'.x_obs, largs'.y_obs))
    /\ lmins' = Some(MinsOf(largs'))
    /\ UNCHANGED <<lbase, ovars, pvars, last>>

\* a call of compute with two neighbouring values of t_grid exchanged
LossPermuteGrid ==
    /\ ~IsNone(lret)
    /\ \E j \in 1..(Len(largs.t_grid) - 1) :
          /\ largs.t_grid[j] # largs.t_grid[j + 1]
          /\ largs' = [largs EXCEPT !.t_grid = SwapAt(@, j)]
    /\ lret' = Some(compute(largs'.params, largs'.t_grid, largs'.x_obs, largs'.y_obs))
    /\ lmins' = Some(MinsOf(largs'))
    /\ UNCHANGED <<lbase, ovars, pvars, last>>

LossNext == LossCompute \/ LossPermuteObs \/ LossPermuteGrid

LossSpec == LossInit /\ [][LossNext]_vars

(***************************************************************************)
(* Properties of Optimizer (under Spec)                                    *)
(***************************************************************************)
\* the entries the optimizer's history shows
Entries == Shown(get_history(optimization_history), heap)

\* the step is a call of optimize
OptimizeCalled == last'.op = "optimize"

\* the entries appended by the step
Appended == SubSeq(Entries', Len(Entries) + 1, Len(Entries'))

\* the entries already in the history stay in place and unchanged
PrefixKept ==
    /\ Len(Entries') >= Len(Entries)
    /\ SubSeq(Entries', 1, Len(Entries)) = Entries
    /\ SubSeq(optimization_history', 1, Len(optimization_history)) = optimization_history

\* the (theta, m, x, loss) of a history entry
TupleOf(e) == <<e.theta, e.m, e.x, e.loss>>

\* C1: every call of optimize that returns appends exactly one entry
\* without refinement and exactly two with it, the entry of the global phase
\* before that of the refinement, and leaves the entries already there in
\* place and unchanged, whatever the length of the history before; from the
\* empty history get_history() then has length 1, respectively 2.
C1_OptimizeAppends ==
    [][OptimizeCalled /\ last'.ok =>
          /\ PrefixKept
          /\ Len(Appended) = (IF last'.arg.use_refinement THEN 2 ELSE 1)
          /\ Appended[1] = global_step(last'.arg.de.x[1], last'.arg.de.x[2],
                                       last'.arg.de.x[3], Appended[1].loss)
          /\ last'.arg.use_refinement =>
                Appended[2] = refine_step(last'.arg.rf.x[1], last'.arg.rf.x[2],
                                          last'.arg.rf.x[3], Appended[2].loss)
          /\ optimization_history = <<>> =>
                Len(get_history(optimization_history')) =
                    (IF last'.arg.use_refinement THEN 2 ELSE 1)]_vars

\* C1 witness: a call with refinement returned on a history that had one
\* entry
C1_Witness ==
    /\ last.op = "optimize" /\ last.ok /\ last.arg.use_refinement
    /\ Len(Entries) = 3

\* C2: the tuple optimize returns is the last history entry, appended by
\* that call: the refinement's whenever use_refinement is true, also when
\* its loss is greater than the global phase's, and the global phase's
\* otherwise.
C2_ReturnsLastEntry ==
    (last.op = "optimize" /\ last.ok) =>
        /\ Len(Entries) >= 1
        /\ Val(last.ret) = TupleOf(Entries[Len(Entries)])
        /\ Entries[Len(Entries)].method =
               (IF last.arg.use_refinement THEN refine_step(0, 0, 0, 0).method
                ELSE global_step(0, 0, 0, 0).method)
        /\ Val(last.ret) =
               (IF last.arg.use_refinement
                THEN <<last.arg.rf.x[1], last.arg.rf.x[2], last.arg.rf.x[3],
                       compute(last.arg.rf.x, OptData.t, OptData.x_obs, OptData.y_obs)>>
                ELSE <<last.arg.de.x[1], last.arg.de.x[2], last.arg.de.x[3],
                       compute(last.arg.de.x, OptData.t, OptData.x_obs, OptData.y_obs)>>)

\* C2 witness: a call with refinement returned the refined result, whose
\* loss is greater than that of the global phase
C2_Witness ==
    /\ last.op = "optimize" /\ last.ok /\ last.arg.use_refinement
    /\ Len(Entries) >= 2
    /\ Val(last.ret)[4] > Entries[Len(Entries) - 1].loss
    /\ Entries[Len(Entries) - 1].method = global_step(0, 0, 0, 0).method

\* the changes a caller makes to the value get_history returned
CallerOps == {"caller_remove", "caller_add", "caller_reorder", "caller_set_field"}

\* C3: no change a caller makes to the value get_history() returned
\* (removing, adding, reordering entries, changing a field of an entry)
\* changes the entries the optimizer's history shows.
C3_CallerCannotChangeHistory ==
    [][last'.op \in CallerOps => Entries' = Entries]_vars

\* C4 as stated: every history entry carries the tag "global-search" or
\* "local-refinement".
C4_SpecTags ==
    \A i \in 1..Len(Entries) : Entries[i].method \in {"global-search", "local-refinement"}

\* C4 as the code has it: the entry the global phase of optimize appends
\* carries the tag "differential_evolution" and the entry the refinement
\* phase appends the tag "L-BFGS-B", whether or not the call returns, and a
\* call of optimize changes no tag of an entry already in the history.
C4_CodeTags ==
    [][OptimizeCalled =>
          /\ PrefixKept
          /\ Len(Appended) <= 2
          /\ Len(Appended) >= 1 => Appended[1].method = "differential_evolution"
          /\ Len(Appended) = 2 => Appended[2].method = "L-BFGS-B"]_vars

\* C4 witness: a call with refinement appended both entries
C4_Witness ==
    /\ last.op = "optimize" /\ last.arg.use_refinement
    /\ Len(Entries) = 2
    /\ Entries[1].method = "differential_evolution"
    /\ Entries[2].method = "L-BFGS-B"

\* C8: if differential_evolution raises, optimize raises that error: it is
\* not caught, differential_evolution is not called again, the refinement
\* is not run, and the call appends no history entry.
C8_GlobalFailurePropagates ==
    [][OptimizeCalled /\ last'.arg.de.raises =>
          /\ ~last'.ok
          /\ last'.err = MinimizerError
          /\ IsNone(last'.ret)
          /\ last'.trace = <<"differential_evolution">>
          /\ optimization_history' = optimization_history
          /\ heap' = heap]_vars

\* C8 witness: differential_evolution raised in a call with refinement on
\* an optimizer that has a history
C8_Witness ==
    /\ last.op = "optimize" /\ last.arg.de.raises /\ last.arg.use_refinement
    /\ ~last.ok
    /\ Len(Entries) >= 1

(***************************************************************************)
(* Properties of CurveFitting and DataLoader (under PipelineSpec)          *)
(***************************************************************************)
\* C5: when load fails in run, run raises load's error without calling
\* optimize or anything else, and load is called once: the history, the
\* stored results and the data summary are unchanged.
C5_LoadFailureStopsRun ==
    [][(last'.op = "run" /\ ~load(loader, last'.arg.file).ok) =>
          /\ ~last'.ok
          /\ last'.err = load(loader, last'.arg.file).err
          /\ last'.trace = <<"load">>
          /\ optimization_history' = optimization_history
          /\ heap' = heap
          /\ fitter' = fitter
          /\ optimized' = optimized]_vars

\* C5 witness: a run failed in load on a pipeline that holds the results of
\* an earlier run
C5_Witness ==
    /\ last.op = "run" /\ ~last.ok /\ last.trace = <<"load">>
    /\ optimized /\ ~IsNone(fitter.theta_opt)
    /\ Len(Entries) >= 1

\* C6: get_results and get_summary raise the precondition error and return
\* nothing in every state in which no run has got a result back from
\* optimize, and return the stored results in the others.
C6_ResultsNeedRun ==
    /\ ~optimized =>
          /\ get_results(fitter) = [ok |-> FALSE, err |-> NotYetRun, ret |-> None]
          /\ get_summary(fitter, optimization_history, heap)
                 = [ok |-> FALSE, err |-> NotYetRun, ret |-> None]
    /\ optimized =>
          /\ get_results(fitter).ok
          /\ get_summary(fitter, optimization_history, heap).ok
          /\ ~IsNone(fitter.theta_opt) /\ ~IsNone(fitter.m_opt)
          /\ ~IsNone(fitter.x_opt) /\ ~IsNone(fitter.final_loss)
          /\ Val(get_results(fitter).ret).theta = fitter.theta_opt
          /\ Val(get_results(fitter).ret).loss = fitter.final_loss
    /\ last.op \in {"get_results", "get_summary"} =>
          /\ last.ok = optimized
          /\ ~last.ok => (last.err = NotYetRun /\ IsNone(last.ret))

\* C6 witness: get_results raised after a run that failed in optimize on a
\* fresh pipeline
C6_Witness ==
    /\ last.op = "get_results" /\ ~last.ok
    /\ ~optimized
    /\ ~IsNone(fitter.data_summary)

\* the file has no content, or a header and no rows
IsEmptyFile(file) ==
    \/ file.kind = "empty"
    \/ file.kind = "table" /\ {"x", "y"} \subseteq file.cols /\ Len(file.x) = 0

\* the file lacks the column x or the column y
LacksColumn(file) == file.kind = "table" /\ ~({"x", "y"} \subseteq file.cols)

\* C7 as stated: the errors load raises are all of one kind.
C7_OneErrorKind == Cardinality(load_errors) <= 1

\* C7 as the code has it: load raises and returns no data in each of the
\* cases; the error is a FileNotFoundError when the path does not exist and
\* a ValueError when the file is empty (no content, or a header and no rows)
\* or lacks the column x or y.
C7_LoadErrorKinds ==
    /\ load_errors \subseteq {"FileNotFoundError", "ValueError"}
    /\ last.op = "load" =>
          /\ last.arg.file.kind = "missing" =>
                ~last.ok /\ IsNone(last.ret) /\ last.err.type = "FileNotFoundError"
          /\ (IsEmptyFile(last.arg.file) \/ LacksColumn(last.arg.file)) =>
                ~last.ok /\ IsNone(last.ret) /\ last.err.type = "ValueError"
          /\ last.ok =>
                ~(last.arg.file.kind = "missing" \/ IsEmptyFile(last.arg.file)
                  \/ LacksColumn(last.arg.file))

\* C7 witness: load has raised both kinds of error, the last one for a path
\* that does not exist
C7_Witness ==
    /\ last.op = "load" /\ ~last.ok /\ last.arg.file.kind = "missing"
    /\ load_errors = {"FileNotFoundError", "ValueError"}

\* C11: get_data and get_summary raise the "Data not loaded" error in every
\* state in which no call of load has returned, also after a load that
\* raised, and never return observation arrays of length 0 or a t grid that
\* is unset.
C11_NotLoadedRaises ==
    /\ ~loaded =>
          /\ get_data(loader) = [ok |-> FALSE, err |-> DataNotLoaded, ret |-> None]
          /\ loader_get_summary(loader)
                 = [ok |-> FALSE, err |-> DataNotLoaded, ret |-> None]
    /\ get_data(loader).ok =>
          /\ Len(Val(get_data(loader).ret).x_obs) > 0
          /\ Len(Val(get_data(loader).ret).y_obs) > 0
          /\ ~IsNone(Val(get_data(loader).ret).t_values)
    /\ (last.op \in {"get_data", "loader_get_summary"} /\ ~loaded) =>
          ~last.ok /\ last.err = DataNotLoaded /\ IsNone(last.ret)

(***************************************************************************)
(* Properties of L1Loss.compute (under LossSpec)                           *)
(***************************************************************************)
\* the sampled curve of the arguments a
CurveOf(a) == predict(a.t_grid, a.params[1], a.params[2], a.params[3])

\* every observed point of a is one of the sampled curve points
AllCoincide(a) ==
    \A i \in 1..Len(a.x_obs) : \E j \in 1..Len(a.t_grid) :
        /\ CurveOf(a)[1][j] = a.x_obs[i]
        /\ CurveOf(a)[2][j] = a.y_obs[i]

\* every sampled curve coordinate and every observed coordinate is finite
AllFinite(a) ==
    /\ \A j \in 1..Len(a.t_grid) :
          IsFinite(CurveOf(a)[1][j]) /\ IsFinite(CurveOf(a)[2][j])
    /\ \A i \in 1..Len(a.x_obs) : IsFinite(a.x_obs[i]) /\ IsFinite(a.y_obs[i])

\* C9 as stated: for every parameter vector, grid and observation set the
\* loss returned is >= 0, and it is 0 when every observed point coincides
\* with a sampled curve point.
C9_NonNegativeAlways ==
    ~IsNone(lret) =>
        /\ FGe0(Val(lret))
        /\ AllCoincide(largs) => Val(lret) = 0

\* C9 amended: when every sampled curve coordinate and every observed
\* coordinate is finite, the loss returned is >= 0 (possibly +Inf), and it
\* is exactly 0 when every observed point coincides with a sampled curve
\* point.  (A parameter vector whose exp_term overflows gives NaN curve
\* points, and then the loss is NaN.)
C9_NonNegativeFinite ==
    (~IsNone(lret) /\ AllFinite(largs)) =>
        /\ FGe0(Val(lret))
        /\ AllCoincide(largs) => Val(lret) = 0

\* C9 witness: a call with two different observed points, each on a
\* different point of a finite sampled curve, has returned 0; the
\* observations are not in the order of the grid.
C9_Witness ==
    /\ ~IsNone(lret)
    /\ AllFinite(largs)
    /\ AllCoincide(largs)
    /\ Len(largs.x_obs) >= 2
    /\ largs.x_obs[1] # largs.x_obs[2]
    /\ CurveOf(largs)[1][1] # largs.x_obs[1]
    /\ Val(lret) = 0

\* C10 as stated: the loss returned after any permutation of the
\* observation pairs and any permutation of t_grid equals the loss of the
\* first call.
C10_PermutationInvariant ==
    ~IsNone(lbase) => Val(lret) = Val(lbase).ret

\* the observation pairs are in the order of the first call
SameObsOrder ==
    /\ largs.x_obs = Val(lbase).args.x_obs
    /\ largs.y_obs = Val(lbase).args.y_obs

\* C10 amended: a permutation of t_grid leaves the returned loss unchanged;
\* a permutation of the observation pairs leaves the minimum distance of
\* every observation pair unchanged (the terms of the mean are the same
\* values in the new order), but the loss is their floating-point sum taken
\* in observation order, which is only guaranteed unchanged while the
\* observations keep their order.
C10_GridInvariantObsTerms ==
    ~IsNone(lbase) =>
        /\ \A i \in 1..Len(largs.x_obs) : \A k \in 1..Len(largs.x_obs) :
              (/\ largs.x_obs[i] = Val(lbase).args.x_obs[k]
               /\ largs.y_obs[i] = Val(lbase).args.y_obs[k])
              => Val(lmins)[i] = Val(lbase).mins[k]
        /\ SameObsOrder => Val(lret) = Val(lbase).ret

\* C10 witness: compute has been called on three observations with the grid
\* exchanged and the observations in the order of the first call, with a
\* loss that is not 0.
C10_Witness ==
    /\ ~IsNone(lbase)
    /\ Len(largs.x_obs) = 3
    /\ largs.t_grid # Val(lbase).args.t_grid
    /\ SameObsOrder
    /\ largs.x_obs[1] # largs.x_obs[3]
    /\ IsFinite(Val(lret)) /\ Val(lret) > 0

=============================================================================
